---- MODULE Spec2Model ----
(***************************************************************************)
(* psychopy-demo: make_experiment.py (the schedule generator) and          *)
(* psychopy_demo.py (the presentation loop), coupled by the schedule file  *)
(* trials_subject-{id}.csv.                                                *)
(*                                                                         *)
(* Time is counted in ticks of half a second: the onsets 4.0, 8.0, 10.0 s  *)
(* are 8, 16, 20 ticks and the stimulus duration 1.5 s is 3 ticks.  The     *)
(* wall clock is read by the loop tests and never runs backwards; it       *)
(* advances while a frame is drawn and flipped, while a TextStim is built, *)
(* while the wait loop polls, and between the two statements that take     *)
(* run_start and reset the run clock.                                      *)
(***************************************************************************)
EXTENDS Integers, Sequences, FiniteSets, TLC

VARIABLES
    files,          \* the directory: the contents of each file that exists, by name
    rng_table,      \* seed -> what np.random.seed(s); permutation(stimuli) yields, as far as drawn
    gen_result,     \* how the last generator run ended
    gen_seeded,     \* whether the last generator run got through np.random.seed
    writes,         \* history: how many times each file has been written
    pc,             \* position of the presentation script
    pres_err,       \* the exception that ended the presentation script
    subject,        \* psychopy_demo.py: subject
    trials,         \* psychopy_demo.py: trials
    now,            \* the wall clock, time()
    run_start,      \* psychopy_demo.py: run_start
    clock_zero,     \* the instant run_clock counts from
    log,            \* the lines of log_subject-{id}.txt
    win,            \* the display window
    screen,         \* what the last flip put on the display
    i,              \* index of the trial the for loop is at
    seen_equal,     \* history: some polled key batch held 'equal'
    fix_drawn,      \* history: the fixation loop of trial i drew a frame
    shown,          \* history: the distinct stimulus texts drawn, in order
    maxFrame,       \* history: the longest draw/flip so far (up to stimulus_duration)
    maxBuild        \* history: the longest stimulus construction so far (likewise)

genvars == <<files, rng_table, gen_result, gen_seeded, writes>>
presvars == <<pc, pres_err, subject, trials, now, run_start, clock_zero, log, win,
              screen, i, seen_equal, fix_drawn, shown, maxFrame, maxBuild>>
vars == <<files, rng_table, gen_result, gen_seeded, writes, pc, pres_err, subject, trials,
          now, run_start, clock_zero, log, win, screen, i, seen_equal, fix_drawn,
          shown, maxFrame, maxBuild>>

(***************************************************************************)
(* Bounds                                                                  *)
(***************************************************************************)
MaxSubject == 2     \* subject ids 1..MaxSubject are given on the command line
MaxLat == 4         \* a draw/flip takes 0..MaxLat ticks
MaxBuild == 2       \* constructing a TextStim takes 0..MaxBuild ticks
MaxWait == 1        \* the wall clock advances at most this far before the trigger
MaxGap == 1         \* ticks that can pass between run_start = time() and run_clock.reset()
MaxRuns == 2        \* the generator is run at most this often for one subject

None == "None"
Blank == ""         \* the display before the first flip
Unbound == 0 - 1    \* a name of the script not assigned yet

(***************************************************************************)
(* Command lines.  A string is a sequence of one-character strings; argv   *)
(* is the sequence of strings after the interpreter, script name first.    *)
(***************************************************************************)
Digits == {"0", "1", "2", "3", "4", "5", "6", "7", "8", "9"}

DigitVal(c) ==
    CASE c = "0" -> 0 [] c = "1" -> 1 [] c = "2" -> 2 [] c = "3" -> 3 [] c = "4" -> 4
      [] c = "5" -> 5 [] c = "6" -> 6 [] c = "7" -> 7 [] c = "8" -> 8 [] c = "9" -> 9

DigitChar(n) == CHOOSE c \in Digits : DigitVal(c) = n

RECURSIVE DigitsValue(_)
DigitsValue(s) ==
    IF Len(s) = 0 THEN 0
    ELSE 10 * DigitsValue(SubSeq(s, 1, Len(s) - 1)) + DigitVal(s[Len(s)])

AllDigits(s) == Len(s) > 0 /\ \A k \in 1..Len(s) : s[k] \in Digits

\* A lenient parser: whatever is not a number counts as 0.
intLenient(s) ==
    IF AllDigits(s) THEN [ok |-> TRUE, val |-> DigitsValue(s)]
    ELSE IF Len(s) > 1 /\ s[1] = "-" /\ AllDigits(Tail(s))
    THEN [ok |-> TRUE, val |-> 0 - DigitsValue(Tail(s))]
    ELSE [ok |-> TRUE, val |-> 0]

\* Python's int(str): an optional sign, then decimal digits; anything else
\* raises ValueError.
int(s) ==
    IF AllDigits(s) THEN [ok |-> TRUE, val |-> DigitsValue(s)]
    ELSE IF Len(s) > 1 /\ s[1] \in {"-", "+"} /\ AllDigits(Tail(s))
    THEN [ok |-> TRUE,
          val |-> IF s[1] = "-" THEN 0 - DigitsValue(Tail(s)) ELSE DigitsValue(Tail(s))]
    ELSE [ok |-> FALSE, err |-> "ValueError"]

\* subject = int(argv[1]): argv[1] is the second element; it raises IndexError
\* when the command line stops after the script name.
ParseSubject(argv) ==
    IF Len(argv) < 2 THEN [ok |-> FALSE, err |-> "IndexError"]
    ELSE int(argv[2])

SubjectArgs == {<<DigitChar(n)>> : n \in 1..MaxSubject}

BadArgs == {<<"x">>, <<"1", "x">>, <<"1", ".", "5">>, <<>>}

NegativeArgs == {<<"-", "1">>}

Argvs(script) ==
    {<<script>>} \cup {<<script, a>> : a \in SubjectArgs \cup BadArgs \cup NegativeArgs}

(***************************************************************************)
(* make_experiment.py                                                      *)
(***************************************************************************)
stimuli == <<"Sam", "Kirsten", "Ari">>

onsets == <<8, 16, 20>>

\* The orders np.random.permutation(stimuli) can return.
Orders == {[k \in 1..Len(stimuli) |-> stimuli[f[k]]] : f \in Permutations(1..Len(stimuli))}

\* np.random.seed accepts 0 .. 2^32 - 1 and raises ValueError otherwise.
SeedOk(s) == s >= 0

\* Without the seed call the generator starts from OS entropy: any order.
DrawsUnseeded(s) == Orders

\* np.random.seed(s); np.random.permutation(stimuli): the generator is a
\* function of its seed, of which rng_table holds the values seen so far.
Draws(s) == IF s \in DOMAIN rng_table THEN {rng_table[s]} ELSE Orders

\* A frame that permutes the onsets along with the labels.
exp_df_by_label(trial_order) ==
    [k \in 1..Len(trial_order) |->
        [stimuli |-> trial_order[k],
         onsets |-> onsets[CHOOSE j \in 1..Len(stimuli) : stimuli[j] = trial_order[k]]]]

\* exp_df = pd.DataFrame({'stimuli': trial_order, 'onsets': onsets}): the
\* columns are paired by position.
exp_df(trial_order) ==
    [k \in 1..Len(trial_order) |-> [stimuli |-> trial_order[k], onsets |-> onsets[k]]]

\* repr of the float onsets as to_csv writes them
FloatText(t) ==
    CASE t = 8 -> <<"4", ".", "0">>
      [] t = 16 -> <<"8", ".", "0">>
      [] t = 20 -> <<"1", "0", ".", "0">>

\* read_csv's float parser on a field d.0 or dd.0, in ticks
FloatTicks(txt) ==
    LET dot == CHOOSE k \in 1..Len(txt) : txt[k] = "."
    IN  2 * DigitsValue(SubSeq(txt, 1, dot - 1)) + (DigitVal(txt[dot + 1]) \div 5)

\* exp_df.to_csv(name, index=False): a header line, then one line per row;
\* a line is the sequence of its fields
to_csv(df) ==
    <<<<"stimuli", "onsets">>>> \o
    [k \in 1..Len(df) |-> <<df[k].stimuli, FloatText(df[k].onsets)>>]

\* pd.read_csv(name).to_numpy(): the header line is dropped, every other
\* line gives one (text, onset) pair
read_csv(file) ==
    [k \in 1..(Len(file) - 1) |-> <<file[k + 1][1], FloatTicks(file[k + 1][2])>>]

\* open(name, 'w') and write: the file is created or replaced
Written(fs, name, content) ==
    [f \in DOMAIN fs \cup {name} |-> IF f = name THEN content ELSE fs[f]]

TrialsFile(s) == <<"trials_subject-", s, ".csv">>

Count(w, name) == IF name \in DOMAIN w THEN w[name] ELSE 0

\* One run of make_experiment.py with command line argv.
make_experiment(argv) ==
    LET parsed == ParseSubject(argv) IN
    /\ IF ~parsed.ok
       THEN /\ gen_result' = parsed.err
            /\ gen_seeded' = FALSE
            /\ UNCHANGED <<files, rng_table, writes>>
       ELSE IF ~SeedOk(parsed.val)
       THEN /\ gen_result' = "ValueError"
            /\ gen_seeded' = FALSE
            /\ UNCHANGED <<files, rng_table, writes>>
       ELSE \E trial_order \in Draws(parsed.val) :
            /\ Count(writes, TrialsFile(parsed.val)) < MaxRuns
            /\ writes' = Written(writes, TrialsFile(parsed.val),
                                 Count(writes, TrialsFile(parsed.val)) + 1)
            /\ rng_table' = Written(rng_table, parsed.val, trial_order)
            /\ files' = Written(files, TrialsFile(parsed.val), to_csv(exp_df(trial_order)))
            /\ gen_result' = "ok"
            /\ gen_seeded' = TRUE
    /\ UNCHANGED presvars

PresIdle ==
    /\ pc = "off" /\ pres_err = None /\ subject = Unbound /\ trials = <<>>
    /\ now = 0 /\ run_start = Unbound /\ clock_zero = Unbound /\ log = <<>>
    /\ win = "none" /\ screen = Blank /\ i = 0
    /\ seen_equal = FALSE /\ fix_drawn = FALSE /\ shown = <<>>
    /\ maxFrame = 0 /\ maxBuild = 0

InitGen ==
    /\ files = <<>>
    /\ rng_table = <<>>
    /\ writes = <<>>
    /\ gen_result = "none"
    /\ gen_seeded = FALSE
    /\ PresIdle

NextGen == \E argv \in Argvs("make_experiment.py") : make_experiment(argv)

SpecGen == InitGen /\ [][NextGen]_vars

(***************************************************************************)
(* psychopy_demo.py                                                        *)
(***************************************************************************)
\* line 39: stimulus_duration = 1.5, in ticks
stimulus_duration == 3

start_message == "LFGGG!!!"

trigger_message == "Got first trigger!"

instructions == "Send me a trigger!"

fixation == "+"

Keys == {"equal", "space", "q"}

\* the longer of two latencies, counted up to stimulus_duration
Longest(a, b) ==
    IF a >= b \/ a >= stimulus_duration THEN a
    ELSE IF b >= stimulus_duration THEN stimulus_duration ELSE b

\* lines 6-7: subject = int(argv[1]), and the line printed to stdout
Start(argv) ==
    LET parsed == ParseSubject(argv) IN
    /\ pc = "off"
    /\ IF parsed.ok
       THEN /\ subject' = parsed.val
            /\ pc' = "load"
            /\ UNCHANGED pres_err
       ELSE /\ pc' = "failed"
            /\ pres_err' = parsed.err
            /\ UNCHANGED subject
    /\ UNCHANGED <<trials, now, run_start, clock_zero, log, win, screen, i,
                   seen_equal, fix_drawn, shown, maxFrame, maxBuild>>
    /\ UNCHANGED genvars

\* The window acquired before the schedule is read.
LoadAfterWindow ==
    /\ pc = "load"
    /\ win' = "open"
    /\ IF TrialsFile(subject) \in DOMAIN files
       THEN /\ trials' = read_csv(files[TrialsFile(subject)])
            /\ pc' = "setup"
            /\ UNCHANGED pres_err
       ELSE /\ pc' = "failed"
            /\ pres_err' = "FileNotFoundError"
            /\ UNCHANGED trials
    /\ UNCHANGED <<subject, now, run_start, clock_zero, log, screen, i,
                   seen_equal, fix_drawn, shown, maxFrame, maxBuild>>
    /\ UNCHANGED genvars

\* line 9: trials = pd.read_csv(f'trials_subject-{subject}.csv').to_numpy()
Load ==
    /\ pc = "load"
    /\ IF TrialsFile(subject) \in DOMAIN files
       THEN /\ trials' = read_csv(files[TrialsFile(subject)])
            /\ pc' = "setup"
            /\ UNCHANGED pres_err
       ELSE /\ pc' = "failed"
            /\ pres_err' = "FileNotFoundError"
            /\ UNCHANGED trials
    /\ UNCHANGED <<subject, now, run_start, clock_zero, log, win, screen, i,
                   seen_equal, fix_drawn, shown, maxFrame, maxBuild>>
    /\ UNCHANGED genvars

\* lines 11-23: the run clock starts, the log file is opened with mode 'w'
\* and gets the start message, the window opens and shows the instructions.
Setup ==
    /\ pc = "setup"
    /\ clock_zero' = now
    /\ log' = <<start_message>>
    /\ win' = "open"
    /\ screen' = instructions
    /\ pc' = "wait"
    /\ UNCHANGED <<pres_err, subject, trials, now, run_start, i,
                   seen_equal, fix_drawn, shown, maxFrame, maxBuild>>
    /\ UNCHANGED genvars

\* Leaving the wait loop on any key at all.
TriggerSeenAnyKey(keys) == keys # {}

\* line 28: 'equal' in keys
TriggerSeen(keys) == "equal" \in keys

\* lines 26-29: one pass of the wait loop; keys is what event.getKeys()
\* returns and d the time the pass takes.
Poll(keys, d) ==
    /\ pc = "wait"
    /\ now + d <= MaxWait
    /\ now' = now + d
    /\ seen_equal' = (seen_equal \/ "equal" \in keys)
    /\ pc' = IF TriggerSeen(keys) THEN "record" ELSE "wait"
    /\ UNCHANGED <<pres_err, subject, trials, run_start, clock_zero, log, win, screen,
                   i, fix_drawn, shown, maxFrame, maxBuild>>
    /\ UNCHANGED genvars

\* line 31: run_start = time()
Record ==
    /\ pc = "record"
    /\ run_start' = now
    /\ pc' = "reset"
    /\ UNCHANGED <<pres_err, subject, trials, now, clock_zero, log, win, screen, i,
                   seen_equal, fix_drawn, shown, maxFrame, maxBuild>>
    /\ UNCHANGED genvars

\* line 32: run_clock.reset(), d after run_start was taken
Reset(d) ==
    /\ pc = "reset"
    /\ now' = now + d
    /\ clock_zero' = now + d
    /\ pc' = "logtrig"
    /\ UNCHANGED <<pres_err, subject, trials, run_start, log, win, screen, i,
                   seen_equal, fix_drawn, shown, maxFrame, maxBuild>>
    /\ UNCHANGED genvars

\* line 33: logging.info('Got first trigger!')
LogTrigger ==
    /\ pc = "logtrig"
    /\ log' = Append(log, trigger_message)
    /\ pc' = "first_fix"
    /\ UNCHANGED <<pres_err, subject, trials, now, run_start, clock_zero, win, screen,
                   i, seen_equal, fix_drawn, shown, maxFrame, maxBuild>>
    /\ UNCHANGED genvars

\* lines 35-37: the first fixation frame; then the for loop starts
FirstFixation(lat) ==
    /\ pc = "first_fix"
    /\ screen' = fixation
    /\ now' = now + lat
    /\ maxFrame' = Longest(maxFrame, lat)
    /\ i' = 1
    /\ pc' = "build"
    /\ UNCHANGED <<pres_err, subject, trials, run_start, clock_zero, log, win,
                   seen_equal, fix_drawn, shown, maxBuild>>
    /\ UNCHANGED genvars

\* Elapsed time read off the run clock.
ElapsedOnRunClock == now - clock_zero

\* Elapsed time counted from the start of the process.
ElapsedSinceLaunch == now

\* lines 45, 49: time() - run_start
Elapsed == now - run_start

\* line 45: time() - run_start < onset
FixationWait(elapsed, onset) == elapsed < onset

\* Holding the stimulus with <=.
StimulusWaitInclusive(elapsed, onset) == elapsed <= onset + stimulus_duration

\* Holding the stimulus until the onset only.
StimulusWaitNoDuration(elapsed, onset) == elapsed < onset

\* line 49: time() - run_start < onset + stimulus_duration
StimulusWait(elapsed, onset) == elapsed < onset + stimulus_duration

\* lines 41-43: the next row is unpacked and its TextStim constructed
Build(d) ==
    /\ pc = "build"
    /\ i <= Len(trials)
    /\ now' = now + d
    /\ maxBuild' = Longest(maxBuild, d)
    /\ fix_drawn' = FALSE
    /\ pc' = "fix"
    /\ UNCHANGED <<pres_err, subject, trials, run_start, clock_zero, log, win, screen,
                   i, seen_equal, shown, maxFrame>>
    /\ UNCHANGED genvars

\* lines 45-47: one test of the fixation loop and, if it passes, one frame
FixLoop(lat) ==
    /\ pc = "fix"
    /\ IF FixationWait(Elapsed, trials[i][2])
       THEN /\ screen' = fixation
            /\ now' = now + lat
            /\ maxFrame' = Longest(maxFrame, lat)
            /\ fix_drawn' = TRUE
            /\ UNCHANGED pc
       ELSE /\ pc' = "stim"
            /\ UNCHANGED <<screen, now, maxFrame, fix_drawn>>
    /\ UNCHANGED <<pres_err, subject, trials, run_start, clock_zero, log, win, i,
                   seen_equal, shown, maxBuild>>
    /\ UNCHANGED genvars

\* lines 49-51: one test of the stimulus loop and, if it passes, one frame
StimLoop(lat) ==
    /\ pc = "stim"
    /\ IF StimulusWait(Elapsed, trials[i][2])
       THEN /\ screen' = trials[i][1]
            /\ shown' = IF screen = trials[i][1] THEN shown ELSE Append(shown, trials[i][1])
            /\ now' = now + lat
            /\ maxFrame' = Longest(maxFrame, lat)
            /\ UNCHANGED <<pc, i>>
       ELSE /\ i' = i + 1
            /\ pc' = "build"
            /\ UNCHANGED <<screen, shown, now, maxFrame>>
    /\ UNCHANGED <<pres_err, subject, trials, run_start, clock_zero, log, win,
                   seen_equal, fix_drawn, maxBuild>>
    /\ UNCHANGED genvars

\* win.close() and core.quit() indented into the body of the for loop.
CloseInsideLoop ==
    /\ pc = "build"
    /\ win' = "closed"
    /\ pc' = "done"
    /\ UNCHANGED <<pres_err, subject, trials, now, run_start, clock_zero, log, screen,
                   i, seen_equal, fix_drawn, shown, maxFrame, maxBuild>>
    /\ UNCHANGED genvars

\* lines 53-54: win.close(); core.quit()
Close ==
    /\ pc = "build"
    /\ i > Len(trials)
    /\ win' = "closed"
    /\ pc' = "done"
    /\ UNCHANGED <<pres_err, subject, trials, now, run_start, clock_zero, log, screen,
                   i, seen_equal, fix_drawn, shown, maxFrame, maxBuild>>
    /\ UNCHANGED genvars

\* The presentation script starts in a directory where the generator has
\* been run for one subject.
InitPres ==
    /\ \E s \in 1..MaxSubject : \E order \in Orders :
          /\ files = Written(<<>>, TrialsFile(s), to_csv(exp_df(order)))
          /\ rng_table = Written(<<>>, s, order)
          /\ writes = Written(<<>>, TrialsFile(s), 1)
    /\ gen_result = "ok"
    /\ gen_seeded = TRUE
    /\ PresIdle

NextPres ==
    \/ \E argv \in Argvs("psychopy_demo.py") : Start(argv)
    \/ Load
    \/ Setup
    \/ \E keys \in SUBSET Keys : \E d \in 0..MaxWait : Poll(keys, d)
    \/ Record
    \/ \E d \in 0..MaxGap : Reset(d)
    \/ LogTrigger
    \/ \E lat \in 0..MaxLat : FirstFixation(lat)
    \/ \E d \in 0..MaxBuild : Build(d)
    \/ \E lat \in 0..MaxLat : FixLoop(lat)
    \/ \E lat \in 0..MaxLat : StimLoop(lat)
    \/ Close

SpecPres == InitPres /\ [][NextPres]_vars

\* Once the trigger is in, the script is the only thread and runs on: every
\* call returns, and the wall clock keeps advancing (some frame takes time).
Fairness ==
    /\ WF_vars(Record)
    /\ WF_vars(\E d \in 0..MaxGap : Reset(d))
    /\ WF_vars(LogTrigger)
    /\ WF_vars(\E lat \in 0..MaxLat : FirstFixation(lat))
    /\ WF_vars(\E d \in 0..MaxBuild : Build(d))
    /\ WF_vars(\E lat \in 1..MaxLat : FixLoop(lat))
    /\ WF_vars(\E lat \in 1..MaxLat : StimLoop(lat))
    /\ WF_vars(Close)

FairSpec == SpecPres /\ Fairness

(***************************************************************************)
(* Properties                                                              *)
(***************************************************************************)
Labels == [k \in 1..Len(trials) |-> trials[k][1]]

IsStimText(x) == \E k \in 1..Len(trials) : trials[k][1] = x

Row(x) == CHOOSE k \in 1..Len(trials) : trials[k][1] = x

Logged(msg) == \E k \in 1..Len(log) : log[k] = msg

\* C1: the text of trial k is drawn only by a frame whose clock test saw
\* now - run_start >= onset_k, and once it is on the display nothing else
\* is drawn and the window is not closed before a clock test has seen
\* now - run_start >= onset_k + stimulus_duration, whatever the frame
\* latencies.
C1_StimulusWindow ==
    [][ /\ (IsStimText(screen') /\ (screen' # screen \/ now' # now))
              => now - run_start >= trials[Row(screen')][2]
        /\ (IsStimText(screen) /\ (screen' # screen \/ win' # win))
              => now - run_start >= trials[Row(screen)][2] + stimulus_duration
      ]_vars

C1_Witness ==
    /\ pc = "fix" /\ i = 3 /\ screen = fixation /\ fix_drawn
    /\ Len(shown) = 2 /\ maxFrame >= stimulus_duration

\* C2: a run whose schedule file is missing ends at the load step with
\* FileNotFoundError, and up to and including that failure no window exists,
\* nothing is displayed and nothing is logged.
C2_LoadBeforeWindow ==
    /\ (pc \in {"off", "load"} \/ pres_err = "FileNotFoundError")
          => (win = "none" /\ screen = Blank /\ log = <<>>)
    /\ (pc = "failed" /\ subject # Unbound /\ TrialsFile(subject) \notin DOMAIN files)
          => pres_err = "FileNotFoundError"
    /\ pc \in {"setup", "wait", "record", "reset", "logtrig", "first_fix", "build",
               "fix", "stim", "done"}
          => TrialsFile(subject) \in DOMAIN files

C2_Witness == pc = "failed" /\ pres_err = "FileNotFoundError" /\ subject \in 1..MaxSubject

\* C3: as long as no polled key batch has held 'equal' the script is at or
\* before the wait loop: run_start is not set, the trigger is not logged,
\* and neither the fixation cross nor a stimulus has been drawn.
C3_OnlyEqualTriggers ==
    ~seen_equal =>
        /\ pc \in {"off", "load", "setup", "wait", "failed"}
        /\ run_start = Unbound
        /\ ~Logged(trigger_message)
        /\ screen \in {Blank, instructions}
        /\ shown = <<>>
        /\ i = 0

C3_Witness == pc = "wait" /\ ~seen_equal /\ now = MaxWait /\ screen = instructions

\* C4: once 'equal' has been seen the script reaches its end with the
\* window closed, and the window is closed only when a clock test has seen
\* now - run_start >= the last onset + stimulus_duration.
C4_Terminates ==
    /\ seen_equal ~> (pc = "done" /\ win = "closed")
    /\ [](win = "closed" =>
            now - run_start >= trials[Len(trials)][2] + stimulus_duration)

C4_Witness == pc = "done" /\ win = "closed" /\ Len(shown) = Len(trials)

\* C5 as stated: the run clock is reset before the wall-clock start is
\* recorded, and the two zeros are the same instant.
C5_ResetThenRecord ==
    /\ pc = "reset" => run_start = Unbound
    /\ Logged(trigger_message) => run_start = clock_zero

\* C5 amended: the wall-clock start is recorded first, then the run clock
\* is reset, then the event is logged, so run_start <= the run clock's
\* zero; and every test of the two trial loops compares now - run_start:
\* a fixation frame is drawn only on now - run_start < onset, the fixation
\* loop is left only on now - run_start >= onset, and likewise for the
\* stimulus loop with onset + stimulus_duration.
C5_RecordThenReset ==
    /\ [](pc = "reset" => (run_start # Unbound /\ ~Logged(trigger_message)))
    /\ [](pc = "logtrig" => (run_start # Unbound /\ run_start <= clock_zero
                               /\ ~Logged(trigger_message)))
    /\ [](Logged(trigger_message) => (run_start # Unbound /\ run_start <= clock_zero))
    /\ [][ /\ (pc = "fix" /\ pc' = "fix" /\ fix_drawn')
                 => now - run_start < trials[i][2]
           /\ (pc = "fix" /\ pc' = "stim")
                 => now - run_start >= trials[i][2]
           /\ (pc = "stim" /\ pc' = "stim" /\ (now' # now \/ screen' # screen))
                 => now - run_start < trials[i][2] + stimulus_duration
           /\ (pc = "stim" /\ pc' = "build")
                 => now - run_start >= trials[i][2] + stimulus_duration
         ]_vars

C5_Witness ==
    /\ Logged(trigger_message) /\ run_start # Unbound /\ run_start < clock_zero
    /\ pc = "stim" /\ i = 1

\* C6: every schedule file the generator writes is the header line
\* stimuli,onsets and three data lines whose second field reads 4.0, 8.0,
\* 10.0 from top to bottom, whatever order the labels came in, and whose
\* first fields are the three labels, each once.
C6_OnsetsByPosition ==
    \A f \in DOMAIN files :
        /\ Len(files[f]) = 4
        /\ files[f][1] = <<"stimuli", "onsets">>
        /\ files[f][2][2] = <<"4", ".", "0">>
        /\ files[f][3][2] = <<"8", ".", "0">>
        /\ files[f][4][2] = <<"1", "0", ".", "0">>
        /\ {files[f][k][1] : k \in 2..4} = {"Sam", "Kirsten", "Ari"}
        /\ \A k \in 2..4 : Len(files[f][k]) = 2

C6_Witness ==
    \E f \in DOMAIN files : files[f][2][1] = "Ari" /\ files[f][3][1] = "Sam"

\* C7: a run of the generator never changes a schedule file that exists:
\* a second run for the same subject writes the same name with the same
\* contents, and a run for another subject writes another name.
C7_Deterministic ==
    [][ \A f \in DOMAIN files : f \in DOMAIN files' /\ files'[f] = files[f] ]_vars

C7_Witness ==
    \E f \in DOMAIN writes : writes[f] >= 2 /\ f \in DOMAIN files /\ gen_result = "ok"

\* C8 as stated: a run whose argument is absent or no integer ends with
\* ArgumentError.
C8_ArgumentError ==
    [][ \A argv \in Argvs("make_experiment.py") :
          (make_experiment(argv) /\ (Len(argv) < 2 \/ argv[2] \in BadArgs))
              => gen_result' = "ArgumentError" ]_vars

\* C8 amended: a run whose argument is absent ends with IndexError and one
\* whose argument is no integer with ValueError; either way the random
\* generator has not been seeded and no file is created or changed.
C8_FailsBeforeSeed ==
    [][ \A argv \in Argvs("make_experiment.py") :
          (make_experiment(argv) /\ (Len(argv) < 2 \/ argv[2] \in BadArgs))
              => /\ gen_result' = IF Len(argv) < 2 THEN "IndexError" ELSE "ValueError"
                 /\ ~gen_seeded'
                 /\ files' = files
                 /\ rng_table' = rng_table
                 /\ writes' = writes ]_vars

C8_Witness == gen_result \in {"IndexError", "ValueError"} /\ files # <<>> /\ ~gen_seeded

\* C9: the tests of trial i compare now - run_start with onset_i alone:
\* the stimulus loop is left at the first test that sees
\* now - run_start >= onset_i + stimulus_duration and not before, and when
\* the first test of the fixation loop already sees now - run_start >=
\* onset_i the loop draws no frame and the stimulus loop is entered at once.
C9_NoDrift ==
    [][ /\ (pc = "stim" /\ now - run_start >= trials[i][2] + stimulus_duration)
              => (pc' = "build" /\ i' = i + 1 /\ screen' = screen /\ now' = now)
        /\ (pc = "stim" /\ now - run_start < trials[i][2] + stimulus_duration)
              => (pc' = "stim" /\ i' = i /\ screen' = trials[i][1])
        /\ (pc = "fix" /\ ~fix_drawn /\ now - run_start >= trials[i][2])
              => (pc' = "stim" /\ ~fix_drawn' /\ screen' = screen /\ now' = now)
      ]_vars

C9_Witness == pc = "stim" /\ i = 3 /\ ~fix_drawn /\ screen = trials[3][1]

\* C10: while the longest stimulus construction plus the longest draw/flip
\* stays below stimulus_duration, the stimulus texts drawn so far are the
\* first rows of the schedule in table order, every row the for loop has
\* finished was drawn, and at the end all rows were.
C10_TableOrder ==
    maxBuild + maxFrame < stimulus_duration =>
        /\ Len(shown) <= Len(trials)
        /\ shown = SubSeq(Labels, 1, Len(shown))
        /\ pc \in {"build", "done"} => Len(shown) = i - 1
        /\ pc = "done" => shown = Labels

C10_Witness ==
    /\ pc = "done" /\ shown = Labels /\ Len(shown) = 3
    /\ maxBuild > 0 /\ maxFrame > 0 /\ maxBuild + maxFrame < stimulus_duration

====
